---- MODULE Spec2Model ----
(***************************************************************************)
(* Model of app.py, a Streamlit dashboard.  The script is re-executed top  *)
(* to bottom on every widget interaction (one "render cycle").  The model  *)
(* keeps the widget state, the st.cache_data cache, and the script's       *)
(* variables with a program counter `pc` that records how far the current  *)
(* render cycle has got.                                                   *)
(*                                                                         *)
(* Numbers.  edu is kept in half-years (edu = 25 means 12.5 years), so a   *)
(* slider value s is compared as 2*s.  ln_wage, the noise and p-values are *)
(* kept in thousandths (0.05 is 50).  exper is in whole years.             *)
(* The wage column (exp of ln_wage) is not represented.                    *)
(* Category labels are written "female" / "male".                          *)
(***************************************************************************)
EXTENDS Integers, Sequences, FiniteSets, TLC

\* ---------------------------------------------------------------- bounds
\* rows drawn by generate_data in the render-cycle specification (n in the source is 1000)
NRows == 16
\* rows drawn by generate_data in the filter specification
NRowsF == 2

\* ------------------------------------------------------- program constants
SliderLo == 6
SliderHi == 20
DefaultMin == 8
DefaultMax == 16
\* clip bounds of edu (half-years) and exper
EduClipLo == 12
EduClipHi == 40
ExperClipLo == 0
ExperClipHi == 40
\* ln_wage window kept by the cleaning step (thousandths)
LnWageLo == 1000
LnWageHi == 5000
\* significance threshold 0.05 (thousandths)
SigThreshold == 50
\* free parameters of the regression formula: Intercept + 4 predictors
KParams == 5

GenderLabels == {"female", "male"}
\* slider positions the render-cycle specification lets the user pick
EduStops == {SliderLo, DefaultMin, DefaultMax, SliderHi}
\* p-value of a coefficient whose test statistic is undefined
NaN == -1

VARIABLES
  rng,            \* the draws the seeded generator will produce, one record per row
  cached,         \* st.cache_data holds a value for generate_data
  cache,          \* the cached dataset
  genCount,       \* number of times the body of generate_data ran
  w_gender,       \* widget state: multiselect
  w_min,          \* widget state: slider "min"
  w_max,          \* widget state: slider "max"
  w_robust,       \* widget state: checkbox
  clicked,        \* the download button whose click started this render cycle
  pc,             \* position of the current render cycle in the script
  steps,          \* pipeline stages executed so far in the current render cycle
  df,
  gender_filter,
  edu_min,
  edu_max,
  warning,        \* st.sidebar.warning was shown in this render cycle
  use_robust,
  df_filtered,
  header_n,       \* sample size written into the page header
  summary,
  group_summary,
  results,
  exception,      \* uncaught exception that ended the render cycle
  sig_edu,
  sig_gender,
  metrics,        \* the two st.metric coefficient displays are on the page
  colors,         \* point colours of the forest plot
  report_content,
  workbook        \* the BytesIO workbook handed to the Excel download button

vars == <<rng, cached, cache, genCount, w_gender, w_min, w_max, w_robust, clicked,
          pc, steps, df, gender_filter, edu_min, edu_max, warning, use_robust,
          df_filtered, header_n, summary, group_summary, results, exception,
          sig_edu, sig_gender, metrics, colors, report_content, workbook>>

\* ------------------------------------------------------------ generate_data
Clip(x, lo, hi) == IF x < lo THEN lo ELSE IF x > hi THEN hi ELSE x

GenderMap(g) == IF g = 0 THEN "female" ELSE "male"

\* ln_wage = 2.5 + 0.08 edu + 0.05 exper - 0.001 exper^2 + 0.15 gender + noise
LnWage(gender, edu, exper, noise) ==
  2500 + 40 * edu + 50 * exper - exper * exper + 150 * gender + noise

\* the row built from the i-th draw; idx is the (0-based) DataFrame index label
MakeRow(i, d) ==
  LET edu == Clip(d.edu, EduClipLo, EduClipHi)
      exper == Clip(d.exper, ExperClipLo, ExperClipHi)
  IN [idx |-> i - 1,
      gender |-> d.gender,
      edu |-> edu,
      exper |-> exper,
      ln_wage |-> LnWage(d.gender, edu, exper, d.noise),
      exper2 |-> exper * exper,
      label |-> GenderMap(d.gender)]

KeepRow(r) == r.ln_wage > LnWageLo /\ r.ln_wage < LnWageHi

GenerateData(stream) ==
  SelectSeq([i \in 1..Len(stream) |-> MakeRow(i, stream[i])], KeepRow)

\* ------------------------------------------------------------------ filter
\* linkage check of the two sliders: the value of edu_max the script goes on with
LinkMaxStrict(lo, hi) == IF lo >= hi THEN lo + 1 ELSE hi
LinkMax(lo, hi) == IF lo > hi THEN lo + 1 ELSE hi

LinkWarn(lo, hi) == lo > hi

FilterRowsExclusive(d, genders, lo, hi) ==
  LET Keep(r) == r.label \in genders /\ r.edu > 2 * lo /\ r.edu < 2 * hi
  IN SelectSeq(d, Keep)
FilterRowsSkipFirst(d, genders, lo, hi) ==
  LET Keep(r) == r.label \in genders /\ r.edu >= 2 * lo /\ r.edu <= 2 * hi
      sel == SelectSeq(d, Keep)
  IN IF sel = <<>> THEN sel ELSE Tail(sel)
FilterRows(d, genders, lo, hi) ==
  LET Keep(r) == r.label \in genders /\ r.edu >= 2 * lo /\ r.edu <= 2 * hi
  IN SelectSeq(d, Keep)

\* ------------------------------------------------------ rounding, describe
RECURSIVE SumSeq(_)
SumSeq(s) == IF s = <<>> THEN 0 ELSE Head(s) + SumSeq(Tail(s))

\* a / b rounded to the nearest integer, ties to even (numpy's round), for a >= 0, b > 0
RoundDiv(a, b) ==
  LET q == a \div b
      r == a % b
  IN IF 2 * r < b THEN q
     ELSE IF 2 * r > b THEN q + 1
     ELSE IF q % 2 = 0 THEN q ELSE q + 1

\* a column of the view as a sequence of rationals num/den, den the unit of the column
Column(view, c) ==
  [i \in 1..Len(view) |->
     IF c = "edu" THEN view[i].edu
     ELSE IF c = "exper" THEN view[i].exper
     ELSE view[i].ln_wage]
ColumnUnit(c) == IF c = "edu" THEN 2 ELSE IF c = "exper" THEN 1 ELSE 1000

SeqMin(s) == CHOOSE x \in {s[i] : i \in DOMAIN s} : \A i \in DOMAIN s : x <= s[i]
SeqMax(s) == CHOOSE x \in {s[i] : i \in DOMAIN s} : \A i \in DOMAIN s : x >= s[i]

\* count, mean, min, max of one column, rounded to 2 decimals (in hundredths);
\* an empty column has count 0 and NaN for the rest
ColumnStats(view, c) ==
  LET col == Column(view, c)
      u == ColumnUnit(c)
      n == Len(col)
  IN IF n = 0
     THEN [count |-> 0, mean |-> NaN, min |-> NaN, max |-> NaN]
     ELSE [count |-> n,
           mean |-> RoundDiv(100 * SumSeq(col), u * n),
           min |-> RoundDiv(100 * SeqMin(col), u),
           max |-> RoundDiv(100 * SeqMax(col), u)]

DescribeColumns == {"edu", "exper", "ln_wage"}
Describe(view) == [c \in DescribeColumns |-> ColumnStats(view, c)]

GroupColumns == {"edu", "exper"}
GroupSummary(view) ==
  LET groups == {view[i].label : i \in DOMAIN view}
      Of(g) == LET In(r) == r.label = g IN SelectSeq(view, In)
  IN [g \in groups |->
        [c \in GroupColumns |->
           [mean |-> ColumnStats(Of(g), c).mean, count |-> Len(Of(g))]]]

\* the renamed, rounded row-level table (df_display and export_data)
RenameRoundHead(view) == IF view = <<>> THEN view ELSE
  [i \in 1..(Len(view) - 1) |->
     [gender |-> view[i].label,
      edu_years |-> RoundDiv(100 * view[i].edu, 2),
      experience |-> 100 * view[i].exper,
      log_wage |-> RoundDiv(100 * view[i].ln_wage, 1000)]]
RenameRound(view) ==
  [i \in 1..Len(view) |->
     [gender |-> view[i].label,
      edu_years |-> RoundDiv(100 * view[i].edu, 2),
      experience |-> 100 * view[i].exper,
      log_wage |-> RoundDiv(100 * view[i].ln_wage, 1000)]]

\* -------------------------------------------------------------- regression
Predictors == <<"edu", "exper", "exper2", "gender">>
PredictorSet == {Predictors[i] : i \in DOMAIN Predictors}
CoefNames == {"Intercept"} \cup PredictorSet

PredictorValue(r, c) ==
  IF c = "edu" THEN r.edu
  ELSE IF c = "exper" THEN r.exper
  ELSE IF c = "exper2" THEN r.exper2
  ELSE r.gender

\* the predictor has a single value over the whole view
ConstantPredictor(view, c) ==
  \A i, j \in DOMAIN view : PredictorValue(view[i], c) = PredictorValue(view[j], c)

\* What smf.ols(...).fit(...) followed by results.summary() can do on a view.
\* The script checks neither the number of rows nor the variance of a
\* predictor before the call.  statsmodels solves least squares with a
\* pseudo-inverse, so a rank-deficient design returns a result; an empty
\* design raises ValueError.  With no residual degrees of freedom
\* (0 < n <= 5) the variance estimates are undefined and either outcome is
\* allowed.
OLSOutcomes(view) ==
  IF Len(view) = 0 THEN {"raise"}
  ELSE IF Len(view) <= KParams THEN {"raise", "return"}
  ELSE {"return"}

\* the point estimates: the least-squares solution of the formula's terms on
\* the observations of the view, carried as a denotation and not a number
OLSParams(view) ==
  [c \in CoefNames |-> [term |-> c, obs |-> {view[i].idx : i \in DOMAIN view}]]

\* p-value vectors the fit may report: each coefficient just below or exactly
\* at the threshold, or every p-value undefined
PValueVectors ==
  {[c \in CoefNames |-> IF c \in S THEN SigThreshold - 1 ELSE SigThreshold] :
      S \in SUBSET CoefNames}
  \cup {[c \in CoefNames |-> NaN]}

\* Python's p < t on floats: a comparison with NaN is False
PLessOrEqual(p, t) == p # NaN /\ p <= t
PLess(p, t) == p # NaN /\ p < t

SigMark(p) == IF PLess(p, SigThreshold) THEN "significant" ELSE "not_significant"
PointColor(p) == IF PLess(p, SigThreshold) THEN "primary" ELSE "neutral"

\* ------------------------------------------------------- values not yet set
NoResults == [fitted |-> FALSE, cov_type |-> "none", nobs |-> 0,
              params |-> OLSParams(<<>>), pvalues |-> [c \in CoefNames |-> NaN]]
NoMetrics == [shown |-> FALSE, edu_return |-> OLSParams(<<>>)["edu"],
              gender_premium |-> OLSParams(<<>>)["gender"]]
NoColors == [c \in PredictorSet |-> "none"]
NoReport == [built |-> FALSE, gender_filter |-> {}, edu_min |-> 0, edu_max |-> 0,
             n |-> 0, robust |-> FALSE, sig_edu |-> "none", sig_gender |-> "none",
             coef_edu |-> OLSParams(<<>>)["edu"], coef_gender |-> OLSParams(<<>>)["gender"]]
NoWorkbook == [built |-> FALSE, sheet1 |-> <<>>, sheet2 |-> Describe(<<>>)]

\* the script's variables before a run has assigned them
FreshRun ==
  /\ pc = "start"
  /\ steps = <<>>
  /\ df = <<>>
  /\ gender_filter = {}
  /\ edu_min = 0
  /\ edu_max = 0
  /\ warning = FALSE
  /\ use_robust = FALSE
  /\ df_filtered = <<>>
  /\ header_n = NaN
  /\ summary = Describe(<<>>)
  /\ group_summary = GroupSummary(<<>>)
  /\ results = NoResults
  /\ exception = "none"
  /\ sig_edu = "none"
  /\ sig_gender = "none"
  /\ metrics = NoMetrics
  /\ colors = NoColors
  /\ report_content = NoReport
  /\ workbook = NoWorkbook

\* -------------------------------------------------------- the seeded draws
\* Two streams of draws for the render-cycle specification.  Every eighth row
\* has a high education draw, the others lie between 9.5 and 15.5 years;
\* genders alternate.  The second stream has a noise outlier whose row the
\* cleaning step drops.
StreamRow(k, i) ==
  [gender |-> i % 2,
   edu |-> IF i % 8 = 0 THEN 31 + (i \div 2) ELSE 19 + ((5 * i) % 13),
   exper |-> ((7 * i) % 11) - 2,
   noise |-> IF k = 2 /\ i = 3 THEN -3000 ELSE (((37 * i) % 5) - 2) * 100]
Streams == {[i \in 1..NRows |-> StreamRow(k, i)] : k \in {1, 2}}

\* draws of the filter specification
DrawsF == {[gender |-> g, edu |-> e, exper |-> 10, noise |-> 0] :
             g \in {0, 1}, e \in {10, 25, 45}}
StreamsF == [1..NRowsF -> DrawsF]

\* ------------------------------------------------------------------- Init
Init ==
  /\ rng \in Streams
  /\ cached = FALSE
  /\ cache = <<>>
  /\ genCount = 0
  /\ w_gender = GenderLabels
  /\ w_min = DefaultMin
  /\ w_max = DefaultMax
  /\ w_robust = TRUE
  /\ clicked = "none"
  /\ FreshRun

\* the filter specification starts a render cycle from any widget state
InitFilter ==
  /\ rng \in StreamsF
  /\ cached = FALSE
  /\ cache = <<>>
  /\ genCount = 0
  /\ w_gender \in SUBSET GenderLabels
  /\ w_min \in SliderLo..SliderHi
  /\ w_max \in SliderLo..SliderHi
  /\ w_robust = TRUE
  /\ clicked = "none"
  /\ FreshRun

widgetVars == <<w_gender, w_min, w_max, w_robust, clicked>>
cacheVars == <<rng, cached, cache, genCount>>
criteriaVars == <<gender_filter, edu_min, edu_max, warning, use_robust>>
displayVars == <<sig_edu, sig_gender, metrics, colors>>
exportVars == <<report_content, workbook>>

\* --------------------------------------------------- steps of a render cycle
\* st.cache_data: the body runs only when nothing is cached
CacheNeverHits(flag) == FALSE
CacheHit(flag) == flag

\* df = generate_data()
LoadData ==
  /\ pc = "start"
  /\ IF CacheHit(cached)
     THEN /\ df' = cache
          /\ UNCHANGED <<cached, cache, genCount>>
     ELSE /\ df' = GenerateData(rng)
          /\ cache' = GenerateData(rng)
          /\ cached' = TRUE
          /\ genCount' = genCount + 1
  /\ pc' = "loaded"
  /\ steps' = Append(steps, "Load")
  /\ UNCHANGED <<rng, widgetVars, criteriaVars, df_filtered, header_n, summary,
                 group_summary, results, exception, displayVars, exportVars>>

\* the sidebar: widget values are read, the slider linkage is checked
ReadWidgets ==
  /\ pc = "loaded"
  /\ gender_filter' = w_gender
  /\ edu_min' = w_min
  /\ edu_max' = LinkMax(w_min, w_max)
  /\ warning' = LinkWarn(w_min, w_max)
  /\ use_robust' = w_robust
  /\ pc' = "criteria"
  /\ steps' = Append(steps, "Criteria")
  /\ UNCHANGED <<cacheVars, widgetVars, df, df_filtered, header_n, summary,
                 group_summary, results, exception, displayVars, exportVars>>

\* df_filtered = df[...]
Filter ==
  /\ pc = "criteria"
  /\ df_filtered' = FilterRows(df, gender_filter, edu_min, edu_max)
  /\ pc' = "filtered"
  /\ steps' = Append(steps, "Filter")
  /\ UNCHANGED <<cacheVars, widgetVars, criteriaVars, df, header_n, summary,
                 group_summary, results, exception, displayVars, exportVars>>

\* page title with the sample size, the four overview metrics, the data table
Overview ==
  /\ pc = "filtered"
  /\ header_n' = Len(df_filtered)
  /\ pc' = "overview"
  /\ steps' = Append(steps, "Overview")
  /\ UNCHANGED <<cacheVars, widgetVars, criteriaVars, df, df_filtered, summary,
                 group_summary, results, exception, displayVars, exportVars>>

\* the two descriptive-statistics tabs
Summarize ==
  /\ pc = "overview"
  /\ summary' = Describe(df_filtered)
  /\ group_summary' = GroupSummary(df_filtered)
  /\ pc' = "summarized"
  /\ steps' = Append(steps, "Summarize")
  /\ UNCHANGED <<cacheVars, widgetVars, criteriaVars, df, df_filtered, header_n,
                 results, exception, displayVars, exportVars>>

\* model = smf.ols(...); results = model.fit(...); st.text(results.summary())
\* No try/except surrounds the call: an exception ends the script run.
Regress ==
  /\ pc = "summarized"
  /\ steps' = Append(steps, "Regress")
  /\ \E out \in OLSOutcomes(df_filtered) :
       IF out = "raise"
       THEN /\ exception' = "ValueError"
            /\ pc' = "crashed"
            /\ UNCHANGED results
       ELSE /\ \E pv \in PValueVectors :
                 results' = [fitted |-> TRUE,
                             cov_type |-> IF use_robust THEN "HC1" ELSE "nonrobust",
                             nobs |-> Len(df_filtered),
                             params |-> OLSParams(df_filtered),
                             pvalues |-> pv]
            /\ pc' = "regressed"
            /\ UNCHANGED exception
  /\ UNCHANGED <<cacheVars, widgetVars, criteriaVars, df, df_filtered, header_n,
                 summary, group_summary, displayVars, exportVars>>

\* coefficient extraction, significance marks, the two st.metric displays
Conclusions ==
  /\ pc = "regressed"
  /\ sig_edu' = SigMark(results.pvalues["edu"])
  /\ sig_gender' = SigMark(results.pvalues["gender"])
  /\ metrics' = [shown |-> TRUE,
                 edu_return |-> results.params["edu"],
                 gender_premium |-> results.params["gender"]]
  /\ pc' = "concluded"
  /\ steps' = Append(steps, "Conclusions")
  /\ UNCHANGED <<cacheVars, widgetVars, criteriaVars, df, df_filtered, header_n,
                 summary, group_summary, results, exception, colors, exportVars>>

\* What sns.regplot can do on the rows of one gender: with no rows of that
\* gender in the view the regression line has nothing to fit and the call may
\* raise; the script does not guard it.
RegplotOutcomes(view, g) ==
  IF \E i \in DOMAIN view : view[i].label = g THEN {"return"} ELSE {"raise", "return"}

\* the scatter chart per gender, then the forest plot of the non-intercept coefficients
Charts ==
  /\ pc = "concluded"
  /\ steps' = Append(steps, "Charts")
  /\ \E outF \in RegplotOutcomes(df_filtered, "female"),
        outM \in RegplotOutcomes(df_filtered, "male") :
       IF outF = "raise" \/ outM = "raise"
       THEN /\ exception' = "ValueError"
            /\ pc' = "crashed"
            /\ UNCHANGED colors
       ELSE /\ colors' = [c \in PredictorSet |-> PointColor(results.pvalues[c])]
            /\ pc' = "charted"
            /\ UNCHANGED exception
  /\ UNCHANGED <<cacheVars, widgetVars, criteriaVars, df, df_filtered, header_n,
                 summary, group_summary, results, sig_edu, sig_gender, metrics,
                 exportVars>>

\* report_content, export_data, both download buttons (the workbook is written
\* into the BytesIO buffer while the button is laid out), the footer
BuildExportsOnClick ==
  /\ pc = "charted"
  /\ report_content' =
       IF clicked = "txt"
       THEN [built |-> TRUE,
             gender_filter |-> gender_filter,
             edu_min |-> edu_min,
             edu_max |-> edu_max,
             n |-> Len(df_filtered),
             robust |-> use_robust,
             sig_edu |-> sig_edu,
             sig_gender |-> sig_gender,
             coef_edu |-> results.params["edu"],
             coef_gender |-> results.params["gender"]]
       ELSE report_content
  /\ workbook' =
       IF clicked = "xlsx"
       THEN [built |-> TRUE,
             sheet1 |-> RenameRound(df_filtered),
             sheet2 |-> Describe(df_filtered)]
       ELSE workbook
  /\ pc' = "done"
  /\ steps' = Append(steps, "Export")
  /\ UNCHANGED <<cacheVars, widgetVars, criteriaVars, df, df_filtered, header_n,
                 summary, group_summary, results, exception, displayVars>>
BuildExports ==
  /\ pc = "charted"
  /\ report_content' = [built |-> TRUE,
                        gender_filter |-> gender_filter,
                        edu_min |-> edu_min,
                        edu_max |-> edu_max,
                        n |-> Len(df_filtered),
                        robust |-> use_robust,
                        sig_edu |-> sig_edu,
                        sig_gender |-> sig_gender,
                        coef_edu |-> results.params["edu"],
                        coef_gender |-> results.params["gender"]]
  /\ workbook' = [built |-> TRUE,
                  sheet1 |-> RenameRound(df_filtered),
                  sheet2 |-> Describe(df_filtered)]
  /\ pc' = "done"
  /\ steps' = Append(steps, "Export")
  /\ UNCHANGED <<cacheVars, widgetVars, criteriaVars, df, df_filtered, header_n,
                 summary, group_summary, results, exception, displayVars>>

\* ------------------------------------------------------------ interactions
\* A widget interaction is taken up once the running script has ended
\* (normally or by an exception); Streamlit then re-executes the script
\* from the top with fresh script variables.
Idle == pc \in {"done", "crashed"}

Rerun ==
  /\ pc' = "start"
  /\ steps' = <<>>
  /\ df' = <<>>
  /\ gender_filter' = {}
  /\ edu_min' = 0
  /\ edu_max' = 0
  /\ warning' = FALSE
  /\ use_robust' = FALSE
  /\ df_filtered' = <<>>
  /\ header_n' = NaN
  /\ summary' = Describe(<<>>)
  /\ group_summary' = GroupSummary(<<>>)
  /\ results' = NoResults
  /\ exception' = "none"
  /\ sig_edu' = "none"
  /\ sig_gender' = "none"
  /\ metrics' = NoMetrics
  /\ colors' = NoColors
  /\ report_content' = NoReport
  /\ workbook' = NoWorkbook
  /\ UNCHANGED cacheVars

SetGender ==
  /\ Idle
  /\ \E g \in SUBSET GenderLabels :
       /\ g # w_gender
       /\ w_gender' = g
  /\ clicked' = "none"
  /\ UNCHANGED <<w_min, w_max, w_robust>>
  /\ Rerun

SetEduMin ==
  /\ Idle
  /\ \E v \in EduStops :
       /\ v # w_min
       /\ w_min' = v
  /\ clicked' = "none"
  /\ UNCHANGED <<w_gender, w_max, w_robust>>
  /\ Rerun

SetEduMax ==
  /\ Idle
  /\ \E v \in EduStops :
       /\ v # w_max
       /\ w_max' = v
  /\ clicked' = "none"
  /\ UNCHANGED <<w_gender, w_min, w_robust>>
  /\ Rerun

ToggleRobust ==
  /\ Idle
  /\ w_robust' = ~w_robust
  /\ clicked' = "none"
  /\ UNCHANGED <<w_gender, w_min, w_max>>
  /\ Rerun

\* the buttons exist only on a page whose script ran to the end; the browser
\* receives the data the button was given when it was laid out
DownloadReport ==
  /\ pc = "done"
  /\ clicked' = "txt"
  /\ UNCHANGED <<w_gender, w_min, w_max, w_robust>>
  /\ Rerun

DownloadExcel ==
  /\ pc = "done"
  /\ clicked' = "xlsx"
  /\ UNCHANGED <<w_gender, w_min, w_max, w_robust>>
  /\ Rerun

Next ==
  \/ LoadData
  \/ ReadWidgets
  \/ Filter
  \/ Overview
  \/ Summarize
  \/ Regress
  \/ Conclusions
  \/ Charts
  \/ BuildExports
  \/ SetGender
  \/ SetEduMin
  \/ SetEduMax
  \/ ToggleRobust
  \/ DownloadReport
  \/ DownloadExcel

Spec == Init /\ [][Next]_vars

NextFilter == LoadData \/ ReadWidgets \/ Filter

SpecFilter == InitFilter /\ [][NextFilter]_vars

\* ------------------------------------------------------------- properties
Pipeline == <<"Load", "Criteria", "Filter", "Overview", "Summarize", "Regress",
              "Conclusions", "Charts", "Export">>
IsPrefix(a, b) == Len(a) <= Len(b) /\ \A i \in DOMAIN a : a[i] = b[i]
Ran(step) == \E i \in DOMAIN steps : steps[i] = step

\* the view is one the regression cannot identify: fewer rows than free
\* parameters, or some predictor without variance
Underdetermined(view) ==
  Len(view) < KParams \/ \E c \in PredictorSet : ConstantPredictor(view, c)

\* C1: the filtered view holds exactly the dataset rows whose gender category
\* is selected and whose education lies in [min, max], both bounds inclusive:
\* every row of the view is such a row and every such row is in the view.
C1_FilterExact ==
  pc = "filtered" =>
    /\ \A j \in DOMAIN df_filtered :
         /\ \E i \in DOMAIN df : df[i] = df_filtered[j]
         /\ df_filtered[j].label \in gender_filter
         /\ 2 * edu_min <= df_filtered[j].edu
         /\ df_filtered[j].edu <= 2 * edu_max
    /\ \A i \in DOMAIN df :
         (/\ df[i].label \in gender_filter
          /\ 2 * edu_min <= df[i].edu
          /\ df[i].edu <= 2 * edu_max)
         => \E j \in DOMAIN df_filtered : df_filtered[j] = df[i]

\* a row sitting exactly on a bound is kept while another row is filtered out
C1_Witness ==
  /\ pc = "filtered"
  /\ Len(df_filtered) < Len(df)
  /\ \E j \in DOMAIN df_filtered :
       df_filtered[j].edu = 2 * edu_max \/ df_filtered[j].edu = 2 * edu_min

\* C2: when the min slider is above the max slider, filtering goes on with
\* max = min + 1 and a warning is shown; otherwise both slider values are used
\* unchanged and no warning is shown; so min <= max for the filter.
C2_Linkage ==
  pc \in {"criteria", "filtered"} =>
    /\ edu_min = w_min
    /\ w_min > w_max => (edu_max = edu_min + 1 /\ warning)
    /\ w_min <= w_max => (edu_max = w_max /\ ~warning)
    /\ edu_min <= edu_max

C2_Witness == pc = "filtered" /\ w_min > w_max /\ warning /\ edu_max = w_min + 1

\* C6: filtering the filtered view again with the same criteria gives the
\* same rows in the same order.
C6_Idempotent ==
  pc = "filtered" =>
    FilterRows(df_filtered, gender_filter, edu_min, edu_max) = df_filtered

C6_Witness == pc = "filtered" /\ Len(df_filtered) = Len(df) /\ Len(df) >= 2

\* C3: whenever the view has fewer than 5 rows or a constant predictor, the
\* regression step fails with an error (InsufficientDataError in the claim;
\* any exception is accepted here) and returns no result.
C3_FitFailsOnUnderdetermined ==
  (Ran("Regress") /\ Underdetermined(df_filtered)) =>
    (~results.fitted /\ exception # "none")

\* C4: in a render cycle whose regression is underdetermined or singular, the
\* steps that depend on the regression result (coefficient display, forest
\* plot, report, workbook) are all skipped.
C4_DownstreamSkipped ==
  (Ran("Regress") /\ Underdetermined(df_filtered)) =>
    /\ ~metrics.shown
    /\ colors = NoColors
    /\ ~report_content.built
    /\ ~workbook.built

\* C5: the body of generate_data runs at most once, the cached dataset never
\* changes, every render cycle starts from it, and no step of a render cycle
\* changes the loaded dataset.
C5_DatasetOnce ==
  [][/\ genCount' <= 1
     /\ cached => (cached' /\ cache' = cache)
     /\ pc' = "loaded" => df' = cache'
     /\ (pc # "start" /\ pc' # "start") => df' = df]_vars

\* a later render cycle (a widget has been changed) runs on the dataset
\* generated by the first one
C5_Witness ==
  /\ pc = "done"
  /\ w_gender # GenderLabels
  /\ ~w_robust
  /\ genCount = 1
  /\ df = cache
  /\ Len(df_filtered) < Len(df)

\* C7: when the export step has run, the workbook's first sheet has as many
\* rows as the filtered view, which is the sample size of the page header and
\* of the report, and its second sheet is the overall descriptive-statistics
\* table of that view.
C7_WorkbookMatchesView ==
  pc = "done" =>
    /\ Len(workbook.sheet1) = Len(df_filtered)
    /\ header_n = Len(df_filtered)
    /\ report_content.n = Len(df_filtered)
    /\ workbook.sheet2 = summary

C7_Witness ==
  /\ pc = "done"
  /\ workbook.built
  /\ Len(df_filtered) > 0
  /\ Len(df_filtered) < Len(df)

C10_Significance ==
  LET Below(c) == results.pvalues[c] \in 0..(SigThreshold - 1)
  IN /\ metrics.shown =>
          /\ sig_edu = "significant" <=> Below("edu")
          /\ sig_edu = "not_significant" <=> ~Below("edu")
          /\ sig_gender = "significant" <=> Below("gender")
          /\ sig_gender = "not_significant" <=> ~Below("gender")
     /\ pc \in {"charted", "done"} =>
          \A c \in PredictorSet :
            /\ colors[c] = "primary" <=> Below(c)
            /\ colors[c] = "neutral" <=> ~Below(c)
     /\ report_content.built =>
          /\ report_content.sig_edu = "significant" <=> Below("edu")
          /\ report_content.sig_gender = "significant" <=> Below("gender")

\* a p-value exactly at the threshold next to one just below it
C10_Witness ==
  /\ pc = "done"
  /\ results.pvalues["edu"] = SigThreshold
  /\ sig_edu = "not_significant"
  /\ colors["edu"] = "neutral"
  /\ results.pvalues["gender"] = SigThreshold - 1
  /\ colors["gender"] = "primary"
====
